---- MODULE Spec2Model ----
(***************************************************************************)
(* Model of python/btl/fit_lyso_funcs.py: the beta-spectrum primitive dn,  *)
(* the branch spectra p_e, the charge model p_q, the likelihood            *)
(* convolution, the cached evaluator lyso_spectrum and the staged fit      *)
(* fit_lyso.                                                               *)
(*                                                                         *)
(* Real numbers (numpy float64) are modelled as decimal floating point     *)
(* values [m |-> mantissa, x |-> exponent] of value m * 10^x with a        *)
(* four-digit mantissa, normalised so that equal values are equal records. *)
(* NaN stands for every non-finite result (nan, inf).                      *)
(***************************************************************************)
EXTENDS Integers, Sequences, FiniteSets, TLC

(***************************************************************************)
(* Decimal floating point                                                  *)
(***************************************************************************)
Abs(n) == IF n < 0 THEN -n ELSE n

\* integer division truncating toward zero
Quot(n, d) == IF n >= 0 THEN n \div d ELSE -((-n) \div d)

Pow10(k) == <<1, 10, 100, 1000, 10000, 100000, 1000000>>[k + 1]

F0 == [m |-> 0, x |-> 0]
NaN == [m |-> 0, x |-> 1]
IsNaN(a) == a = NaN

\* the mantissa brought to four digits, truncating toward zero
Shift(m, x, k) == [m |-> Quot(m, Pow10(k)), x |-> x + k]

\* how many digits a magnitude a >= 1 has beyond four, or lacks to four
Excess(a) ==
    IF a < 10000 THEN 0
    ELSE IF a < 100000 THEN 1
    ELSE IF a < 1000000 THEN 2
    ELSE IF a < 10000000 THEN 3
    ELSE IF a < 100000000 THEN 4
    ELSE IF a < 1000000000 THEN 5
    ELSE 6
Lack(a) == IF a < 10 THEN 3 ELSE IF a < 100 THEN 2 ELSE IF a < 1000 THEN 1 ELSE 0

NormAbs(m, x, a) ==
    IF a = 0 THEN F0
    ELSE IF a < 1000 THEN [m |-> m * Pow10(Lack(a)), x |-> x - Lack(a)]
    ELSE Shift(m, x, Excess(a))
NormMant(m, x) == NormAbs(m, x, Abs(m))

\* float64's overflow (inf) above about 1e308 and underflow (0) below about
\* 1e-323
Clip(r) ==
    IF r.m = 0 THEN F0
    ELSE IF r.x + 3 > 308 THEN NaN
    ELSE IF r.x + 3 < -323 THEN F0
    ELSE r
Norm(m, x) == Clip(NormMant(m, x))

FI(n) == Norm(n, 0)
\* the decimal literal n * 10^x
FD(n, x) == Norm(n, x)

FNeg(a) == IF IsNaN(a) THEN NaN ELSE [m |-> -a.m, x |-> a.x]

FAdd(a, b) ==
    IF IsNaN(a) \/ IsNaN(b) THEN NaN
    ELSE IF a.m = 0 THEN b
    ELSE IF b.m = 0 THEN a
    ELSE LET hi == IF a.x >= b.x THEN a ELSE b
             lo == IF a.x >= b.x THEN b ELSE a
             d  == hi.x - lo.x
         IN  IF d > 8 THEN hi
             ELSE LET k == IF d < 4 THEN d ELSE 4
                  IN  Norm(hi.m * Pow10(k) + Quot(lo.m, Pow10(d - k)), hi.x - k)

FSub(a, b) == FAdd(a, FNeg(b))

FMul(a, b) ==
    IF IsNaN(a) \/ IsNaN(b) THEN NaN ELSE Norm(a.m * b.m, a.x + b.x)

\* x/0 is inf or nan in numpy: non-finite
FDiv(a, b) ==
    IF IsNaN(a) \/ IsNaN(b) \/ b.m = 0 THEN NaN
    ELSE Norm(Quot(a.m * 100000, b.m), a.x - b.x - 5)

RECURSIVE FPow(_, _)
FPow(a, n) == IF n = 0 THEN FI(1) ELSE FMul(a, FPow(a, n - 1))

\* a < b for finite values: by sign, then exponent, then mantissa
Less(a, b) ==
    IF a.m <= 0 /\ b.m >= 0 THEN a.m < b.m
    ELSE IF a.m >= 0 /\ b.m <= 0 THEN FALSE
    ELSE IF a.x # b.x THEN (IF a.m > 0 THEN a.x < b.x ELSE a.x > b.x)
    ELSE a.m < b.m

\* comparisons; every comparison with nan is false
FLt(a, b) == ~IsNaN(a) /\ ~IsNaN(b) /\ Less(a, b)
FLe(a, b) == ~IsNaN(a) /\ ~IsNaN(b) /\ ~Less(b, a)
FGt(a, b) == FLt(b, a)
FGe(a, b) == FLe(b, a)

RECURSIVE ISqrtBits(_, _, _)
ISqrtBits(n, r, b) ==
    IF b = 0 THEN r
    ELSE IF (r + b) * (r + b) <= n THEN ISqrtBits(n, r + b, b \div 2)
    ELSE ISqrtBits(n, r, b \div 2)

ISqrt(n) == ISqrtBits(n, 0, 16384)

\* np.sqrt: nan for a negative argument
FSqrt(a) ==
    IF IsNaN(a) \/ a.m < 0 THEN NaN
    ELSE IF a.m = 0 THEN F0
    ELSE LET odd == (a.x % 2) = 1
             m2  == IF odd THEN a.m * 10 ELSE a.m
             x2  == IF odd THEN a.x - 1 ELSE a.x
         IN  Norm(ISqrt(m2 * 10000), (x2 - 4) \div 2)

RECURSIVE ExpSeries(_, _, _, _)
ExpSeries(term, r, k, acc) ==
    IF term = 0 THEN acc
    ELSE LET next == (term * r) \div (k * 10000)
         IN  ExpSeries(next, r, k + 1, acc + next)

\* np.exp: exp(v) = 10^n * exp(r) with v = n*ln(10) + r, 0 <= r < ln(10);
\* v is taken in units of 1e-4
FExp(a) ==
    IF IsNaN(a) THEN NaN
    ELSE IF a.m = 0 THEN FI(1)
    ELSE IF a.x + 3 >= 3 THEN (IF a.m < 0 THEN F0 ELSE NaN)
    ELSE LET s == a.x + 4
             V == IF s >= 0 THEN a.m * Pow10(s)
                  ELSE IF s < -5 THEN 0 ELSE Quot(a.m, Pow10(-s))
             n == V \div 23026
             r == V % 23026
         IN  Norm(ExpSeries(10000, r, 1, 10000), n - 4)

(***************************************************************************)
(* dn: the branch spectrum primitive                                       *)
(***************************************************************************)
Forbs == {"None", "1U", "2U", "3U"}

\* the domain guard `0 < E <= Q` as dn evaluates it (dn_guard), and the guard
\* `0 <= E <= Q` that would let E = 0 through
dn_guard_weak(E, Q) == FLe(F0, E) /\ FLe(E, Q)
dn_guard(E, Q) == FLt(F0, E) /\ FLe(E, Q)

\* Fermi function coefficients, the regime chosen at e = 613.2
dn_a(e, Z) ==
    IF FLt(e, FD(6132, -1))
    THEN FAdd(FAdd(FD(-811, -3), FMul(FD(446, -4), Z)),
              FMul(FD(108, -6), FPow(Z, 2)))
    ELSE FAdd(FAdd(FD(-846, -4), FMul(FD(248, -4), Z)),
              FMul(FD(237, -6), FPow(Z, 2)))

dn_b(e, Z) ==
    IF FLt(e, FD(6132, -1))
    THEN FAdd(FSub(FD(673, -3), FMul(FD(182, -4), Z)),
              FMul(FD(638, -7), FPow(Z, 2)))
    ELSE FSub(FAdd(FD(115, -4), FMul(FD(358, -6), Z)),
              FMul(FD(617, -7), FPow(Z, 2)))

\* the radicand of P
dn_P2(e) == FSub(FPow(FAdd(e, FI(511)), 2), FPow(FI(511), 2))

\* the radicand inside the exponential
dn_Frad(e) == FSub(FDiv(FAdd(e, FI(511)), FI(511)), FI(1))

\* the radicand of the phase-space factor
dn_Srad(e) == FAdd(FPow(e, 2), FMul(FMul(FI(2), e), FI(511)))

dn_F(e, Z) ==
    LET P == FSqrt(dn_P2(e))
    IN  FMul(FDiv(FAdd(e, FI(511)), P),
             FExp(FAdd(dn_a(e, Z), FMul(dn_b(e, Z), FSqrt(dn_Frad(e))))))

\* the shape factor of a momentum P and a neutrino energy Qe = Q - E
dn_shape(P, Qe, forb) ==
        CASE forb = "1U" -> FAdd(FPow(P, 2), FPow(Qe, 2))
          [] forb = "2U" ->
                FAdd(FAdd(FPow(Qe, 4),
                          FMul(FMul(FDiv(FI(10), FI(3)), FPow(P, 2)), FPow(Qe, 2))),
                     FPow(P, 2))
          [] forb = "3U" ->
                FAdd(FAdd(FAdd(FPow(Qe, 6),
                               FMul(FMul(FI(7), FPow(P, 2)), FPow(Qe, 4))),
                          FMul(FMul(FI(7), FPow(P, 4)), FPow(Qe, 2))),
                     FPow(P, 6))
          [] OTHER -> FI(1)

dn_forbiddenness(e, Q, forb) == dn_shape(FSqrt(dn_P2(e)), FSub(Q, e), forb)

\* One call of dn: the value returned and the arguments handed to np.sqrt,
\* in evaluation order (none when the guard returns first).
dn_run(E, Q, Z, A, forb) ==
    IF ~dn_guard(E, Q)
    THEN [ret |-> F0, sqrts |-> <<>>]
    ELSE [ret |->
            FMul(FMul(dn_forbiddenness(E, Q, forb), dn_F(E, Z)),
                 FMul(FMul(FSqrt(dn_Srad(E)), FPow(FSub(Q, E), 2)),
                      FAdd(E, FI(511)))),
          sqrts |-> <<dn_P2(E), dn_Frad(E), dn_Srad(E)>>]

dn(E, Q, Z, A, forb) == dn_run(E, Q, Z, A, forb).ret

(***************************************************************************)
(* numpy helpers                                                           *)
(***************************************************************************)
\* np.linspace(a, b, n), n >= 2: the last sample is b itself
linspace(a, b, n) ==
    LET step == FDiv(FSub(b, a), FI(n - 1))
    IN  [i \in 1..n |-> IF i = n THEN b ELSE FAdd(a, FMul(FI(i - 1), step))]

RECURSIVE trapz_from(_, _, _)
trapz_from(y, x, i) ==
    IF i >= Len(x) THEN F0
    ELSE FAdd(FDiv(FMul(FSub(x[i + 1], x[i]), FAdd(y[i + 1], y[i])), FI(2)),
              trapz_from(y, x, i + 1))

\* np.trapz(y, x=x)
trapz(y, x) == trapz_from(y, x, 1)

\* np.interp(x, xp, fp) for a scalar x: fp[0] left of the grid, fp[-1] right
\* of it, the chord between the two neighbours inside
\* the straight line through the two grid points nearest x at its end of the
\* grid, or around it: interpolation that extends the table linearly
interp_extend(x, xp, fp) ==
    LET n == Len(xp)
        j == IF FLt(x, xp[1]) THEN 1
             ELSE IF FGe(x, xp[n]) THEN n - 1
             ELSE CHOOSE k \in 1..(n - 1) : FLe(xp[k], x) /\ FLt(x, xp[k + 1])
        slope == FDiv(FSub(fp[j + 1], fp[j]), FSub(xp[j + 1], xp[j]))
    IN  IF IsNaN(x) THEN NaN
        ELSE FAdd(FMul(slope, FSub(x, xp[j])), fp[j])

\* the chord through (xp[j], fp[j]) and (xp[j+1], fp[j+1]) at x
chord(x, xp, fp, j) ==
    FAdd(FMul(FDiv(FSub(fp[j + 1], fp[j]), FSub(xp[j + 1], xp[j])),
              FSub(x, xp[j])),
         fp[j])

\* the grid interval [xp[j], xp[j+1]) that holds x
segment(x, xp) ==
    CHOOSE k \in 1..(Len(xp) - 1) : FLe(xp[k], x) /\ FLt(x, xp[k + 1])

interp(x, xp, fp) ==
    IF IsNaN(x) THEN NaN
    ELSE IF FLt(x, xp[1]) THEN fp[1]
    ELSE IF FGe(x, xp[Len(xp)]) THEN fp[Len(xp)]
    ELSE chord(x, xp, fp, segment(x, xp))

(***************************************************************************)
(* The forward model                                                       *)
(***************************************************************************)
\* grid sizes: the code tabulates 1000 charges, integrates 1000 energies and
\* 10 yields
NQ == 3
NE == 4
NY == 2

SPE_CHARGE == FI(1)
EPSILON == FD(1, -10)
PI == FD(3142, -3)

\* one branch of p_e: dn shifted by the gamma offset, floored by EPSILON and
\* normalised by its own trapezoid integral
p_e_floor(es, off) ==
    [i \in 1..Len(es) |->
       FAdd(dn(FSub(es[i], FI(off)), FI(593), FI(72), FI(176), "None"), EPSILON)]
p_e_scale(raw, nrm) == [i \in 1..Len(raw) |-> FDiv(raw[i], nrm)]
p_e_normalise(raw, es) == p_e_scale(raw, trapz(raw, es))
p_e_branch(es, off) == p_e_normalise(p_e_floor(es, off), es)

p_e(es, p) ==
    LET spectrum_88  == p_e_branch(es, 88)
        spectrum_290 == p_e_branch(es, 290)
        spectrum_395 == p_e_branch(es, 395)
        spectrum_597 == p_e_branch(es, 597)
    IN  [i \in 1..Len(es) |->
           FAdd(FAdd(FAdd(FMul(p[1], spectrum_88[i]), FMul(p[2], spectrum_290[i])),
                     FMul(p[3], spectrum_395[i])),
                FMul(p[4], spectrum_597[i]))]

fast_norm(x, mu, sigma) ==
    FDiv(FExp(FDiv(FNeg(FPow(FSub(x, mu), 2)), FMul(FI(2), FPow(sigma, 2)))),
         FMul(FSqrt(FMul(FI(2), PI)), sigma))

p_q(q, y, e) ==
    LET n == FDiv(FMul(y, e), SPE_CHARGE)
    IN  fast_norm(q, FMul(y, e), FMul(FSqrt(n), SPE_CHARGE))

\* likelihood(q, avg_y, dy, p), with the p_e array pe its p_e call returned
likelihood(q, avg_y, dy, pe) ==
    LET lin == linspace(FSub(FI(1), dy), FAdd(FI(1), dy), NY)
        ys  == [j \in 1..NY |-> FMul(avg_y, lin[j])]
        es  == linspace(FI(1), FI(1000), NE)
        inner == [i \in 1..NE |->
                    trapz([j \in 1..NY |->
                             FDiv(p_q(q, ys[j], es[i]), FMul(FI(2), dy))], ys)]
    IN  trapz([i \in 1..NE |-> FMul(pe[i], inner[i])], es)

\* Python's None, and a value that may be None as <<>> or <<value>>
None == <<>>
IsNone(v) == v = None
ValueOf(v) == v[1]

(***************************************************************************)
(* ROOT: the histogram and the TF1 as fit_lyso uses them                   *)
(***************************************************************************)
\* a histogram has MaxBins - 1 or MaxBins bins
MaxBins == 4

\* axes (low edge, bin width): no bin above 100 keV, a bin centred on 100 keV
\* exactly, and bins above 100 keV from the second or from the first bin on
Axes == {<<0, 20>>, <<0, 40>>, <<0, 100>>, <<100, 100>>}
Contents == {0, 1, 2}

RECURSIVE SumSeq(_)
SumSeq(s) == IF s = <<>> THEN 0 ELSE Head(s) + SumSeq(Tail(s))

\* entries counts every fill, those of the under- and overflow bins too
Histograms ==
    UNION {{[nbins |-> n, xlow |-> a[1], width |-> a[2], content |-> c,
             entries |-> SumSeq(c) + u] :
               a \in Axes, c \in [1..n -> Contents], u \in {0, 1}} :
           n \in {MaxBins - 1, MaxBins}}

GetNbinsX(hh) == hh.nbins
GetBinCenter(hh, i) ==
    FAdd(FI(hh.xlow), FDiv(FMul(FI(2 * i - 1), FI(hh.width)), FI(2)))
GetBinContent(hh, i) == FI(hh.content[i])
GetEntries(hh) == FI(hh.entries)

Pars == 0..5

\* ROOT.TF1("flyso", lyso_spectrum, 0, 1000, 6): parameters, limits and errors 0
TF1 ==
    [par |-> [i \in Pars |-> F0], parmin |-> [i \in Pars |-> F0],
     parmax |-> [i \in Pars |-> F0], parerr |-> [i \in Pars |-> F0]]

SetParameter(t, i, v) == [t EXCEPT !.par[i] = v]
SetParLimits(t, i, lo, hi) == [t EXCEPT !.parmin[i] = lo, !.parmax[i] = hi]

\* TF1::FixParameter: the value, and limits (value, value), or (1, 1) for a
\* value of 0, since limits (0, 0) mean no limits (FixParameter_zero: what it
\* would be without that case)
FixParameter_zero(t, i, v) == SetParLimits(SetParameter(t, i, v), i, v, v)
FixParameter(t, i, v) ==
    IF v.m # 0
    THEN SetParLimits(SetParameter(t, i, v), i, v, v)
    ELSE SetParLimits(SetParameter(t, i, v), i, FI(1), FI(1))

\* TF1::ReleaseParameter: limits (0, 0)
ReleaseParameter(t, i) == SetParLimits(t, i, F0, F0)

\* how the fitter reads the limits: fixed when both are non-zero and
\* lower >= upper, limited when lower < upper, free otherwise
IsFixed(t, i) ==
    t.parmin[i].m # 0 /\ t.parmax[i].m # 0 /\ FGe(t.parmin[i], t.parmax[i])
HasLimits(t, i) == ~IsFixed(t, i) /\ FLt(t.parmin[i], t.parmax[i])
InLimits(t, i, v) ==
    ~HasLimits(t, i) \/ (FLe(t.parmin[i], v) /\ FLe(v, t.parmax[i]))

(***************************************************************************)
(* fit_lyso                                                                *)
(***************************************************************************)
\* the last bin `for i in range(1,h.GetNbinsX()-1)` visits
scan_last(hh) == GetNbinsX(hh) - 2

\* `if x > 100 and value > ymax` (seed_take), and the test with `>=` that would
\* take an empty bin
seed_take_ge(x, value, ym) == FGt(x, FI(100)) /\ FGe(value, ym)
seed_take(x, value, ym) == FGt(x, FI(100)) /\ FGt(value, ym)

RECURSIVE seed_scan(_, _, _, _)
seed_scan(hh, i, xm, ym) ==
    IF i > scan_last(hh) THEN [xmax |-> xm, ymax |-> ym]
    ELSE LET x     == GetBinCenter(hh, i)
             value == GetBinContent(hh, i)
         IN  IF seed_take(x, value, ym)
             THEN seed_scan(hh, i + 1, <<x>>, value)
             ELSE seed_scan(hh, i + 1, xm, ym)

\* xmax = None, ymax = 0, then the loop
seed(hh) == seed_scan(hh, 1, None, F0)

AmpMax == FI(1000000000)

\* the parameters' initial values and limits
fit_lyso_init(t, xm, hh) ==
    LET t0 == SetParLimits(SetParameter(t, 0, FDiv(xm, FI(300))), 0, FD(1, -1), FI(10))
        t1 == SetParLimits(SetParameter(t0, 1, FD(1, -1)), 1, FD(1, -2), FD(2, -1))
        t2 == SetParLimits(SetParameter(t1, 2, GetEntries(hh)), 2, F0, AmpMax)
        t3 == SetParLimits(SetParameter(t2, 3, GetEntries(hh)), 3, F0, AmpMax)
        t4 == SetParLimits(SetParameter(t3, 4, F0), 4, F0, AmpMax)
        t5 == SetParLimits(SetParameter(t4, 5, F0), 5, F0, AmpMax)
    IN  t5

\* the higher energy components are not fitted
fit_lyso_fix_high(t) == FixParameter(FixParameter(t, 4, F0), 5, F0)

\* the first fit floats only the normalisation constants
\* (fit_lyso_fix_shape_none: fit_lyso without these two FixParameter calls)
fit_lyso_fix_shape_none(t, xm) == t
fit_lyso_fix_shape(t, xm) ==
    FixParameter(FixParameter(t, 0, FDiv(xm, FI(300))), 1, FD(1, -1))

\* "Now we float all the parameters": indices 0 and 1 are released and given
\* their limits again (fit_lyso_release_all: a release of every parameter)
fit_lyso_release_all(t) ==
    LET r == [t EXCEPT !.parmin = [i \in Pars |-> F0], !.parmax = [i \in Pars |-> F0]]
    IN  SetParLimits(SetParLimits(r, 0, FD(1, -1), FI(10)), 1, FD(1, -2), FD(2, -1))
fit_lyso_release(t) ==
    LET r0 == ReleaseParameter(t, 0)
        r1 == ReleaseParameter(r0, 1)
        l0 == SetParLimits(r1, 0, FD(1, -1), FI(10))
        l1 == SetParLimits(l0, 1, FD(1, -2), FD(2, -1))
    IN  l1

\* the arguments of h.Fit(f,"S+","",xmax-100,xmax+100)
fit_window(xm) == [opt |-> "S+", xlo |-> FSub(xm, FI(100)), xhi |-> FAdd(xm, FI(100))]

(***************************************************************************)
(* The solver h.Fit: an external capability.  It reports "valid" or        *)
(* "invalid" with a result object, or "null": a TFitResultPtr holding no   *)
(* result, the fit not having been made.  A fit leaves the fixed           *)
(* parameters alone and the floating ones inside their limits, and writes  *)
(* the parameters and errors back into the TF1.                            *)
(***************************************************************************)
SolverOutcomes == {"valid", "invalid", "null"}
\* where a fit leaves the floating parameters: where they started (None), or
\* at one of these values where the limits allow it
SolverMoves == {None, <<FD(15, -2)>>, <<FI(2)>>}

clamp(t, i, v) ==
    IF InLimits(t, i, v) THEN v
    ELSE IF FLt(v, t.parmin[i]) THEN t.parmin[i] ELSE t.parmax[i]

Fitted(t, outcome, move) ==
    IF outcome = "null" THEN t
    ELSE [t EXCEPT
            !.par = [i \in Pars |->
                       IF IsFixed(t, i) THEN t.par[i]
                       ELSE IF ~IsNone(move) /\ InLimits(t, i, ValueOf(move))
                            THEN ValueOf(move)
                       ELSE clamp(t, i, t.par[i])],
            !.parerr = [i \in Pars |-> IF IsFixed(t, i) THEN F0 ELSE FD(5, -2)]]

ParTuple(t) == <<t.par[0], t.par[1], t.par[2], t.par[3], t.par[4], t.par[5]>>
ErrTuple(t) == <<t.parerr[0], t.parerr[1], t.parerr[2], t.parerr[3], t.parerr[4], t.parerr[5]>>

\* the TF1 at the first h.Fit: initial values and limits, then the fixes
stage_a_setup(hh, xm) ==
    fit_lyso_fix_shape(fit_lyso_fix_high(fit_lyso_init(TF1, xm, hh)), xm)

(***************************************************************************)
(* lyso_spectrum                                                           *)
(***************************************************************************)
qs_grid == linspace(FI(88), FI(500), NQ)
es_grid == linspace(FI(1), FI(1000), NE)

\* the parameter tuples lyso_spectrum is called with directly
SpectrumParams ==
    {<<FI(1), FD(1, -1), FI(1), FI(1), F0, F0>>,
     <<FI(1), FD(1, -1), FI(2), FI(1), F0, F0>>,
     <<FI(1), FD(1, -1), FI(1), FI(1), FI(1), F0>>,
     <<FD(5, -1), FD(1, -3), FI(1), FI(1), F0, F0>>}

\* the query points x[0]: below, on, inside, at the end of and beyond the grid
QueryPoints ==
    {FI(50), FI(88), FI(200), FI(400), FI(500), FI(600)}

\* the parameter tuples the solver can leave in the TF1, where it evaluates
\* lyso_spectrum
FitParams ==
    UNION {LET s == seed(hh)
           IN  IF IsNone(s.xmax) THEN {}
               ELSE UNION {{ParTuple(a)} \cup
                           {ParTuple(Fitted(fit_lyso_release(a), "valid", m2)) :
                              m2 \in SolverMoves} :
                           a \in {Fitted(stage_a_setup(hh, ValueOf(s.xmax)), o, m1) :
                                    o \in SolverOutcomes, m1 \in SolverMoves}} :
           hh \in Histograms}

\* [likelihood(q,p[0],p[1],ps) for q in qs]; p_e(es, ps) is the value its
\* functools.cache holds or computes
total_spectrum(p) ==
    LET ps == <<p[3], p[4], p[5], p[6]>>
        pe == p_e(es_grid, ps)
    IN  [i \in 1..NQ |-> likelihood(qs_grid[i], p[1], p[2], pe)]

\* total_spectrum as a table, evaluated once per parameter tuple
Tabulated == [p \in {k : k \in SpectrumParams \cup FitParams} |-> total_spectrum(p)]

\* the CACHE entry a miss writes (cache_store_evict: a store that keeps only
\* the newest entry)
cache_store_evict(cache, key, table) == (key :> table)
cache_store(cache, key, table) == cache @@ (key :> table)

\* the table a hit reads
cache_lookup(cache, key) == cache[key]

\* `if key in CACHE` (cache_hit_never: a lookup that never finds the key)
cache_hit_never(cache, key) == FALSE
cache_hit(cache, key) == key \in DOMAIN cache

\* One call lyso_spectrum(x, p) against the caches: the value returned, CACHE
\* and the keys memoised for p_e afterwards, and the number of likelihood
\* evaluations made.
lyso_spectrum_run(x0, p, cache, memo) ==
    LET key == <<p[1], p[2], p[3], p[4], p[5], p[6]>>
        ps  == <<p[3], p[4], p[5], p[6]>>
    IN  IF cache_hit(cache, key)
        THEN [ret   |-> interp(x0, qs_grid, cache_lookup(cache, key)),
              CACHE |-> cache, memo |-> memo, nlik |-> 0, hit |-> TRUE]
        ELSE LET table == Tabulated[p]
             IN  [ret   |-> interp(x0, qs_grid, table),
                  CACHE |-> cache_store(cache, key, table),
                  memo  |-> memo \cup {<<es_grid, ps>>},
                  nlik  |-> NQ, hit |-> FALSE]

(***************************************************************************)
(* State                                                                   *)
(***************************************************************************)
VARIABLES
    dnCall,       \* the last call of dn: its arguments and dn_run's result
    CACHE,        \* the module's CACHE: parameter tuple -> tabulated spectrum
    P_E_MEMO,     \* the (es, p) keys functools.cache holds for p_e
    nLikelihood,  \* number of likelihood evaluations made so far
    seen,         \* the parameter tuples lyso_spectrum was called with so far
    call,         \* the last call of lyso_spectrum
    lastMiss,     \* the last call of lyso_spectrum that missed CACHE
    pc,           \* fit_lyso: where the call stands
    h,            \* fit_lyso: the histogram
    f,            \* fit_lyso: the TF1 "flyso"
    xmax,         \* fit_lyso: the seed peak
    ymax,
    fr,           \* fit_lyso: what the last h.Fit returned
    fits,         \* the solver invocations made so far
    result        \* fit_lyso: what the call returned

dnVars   == <<dnCall>>
specVars == <<CACHE, P_E_MEMO, nLikelihood, seen, call, lastMiss>>
fitVars  == <<pc, h, f, xmax, ymax, fr, fits, result>>
vars     == <<dnCall, CACHE, P_E_MEMO, nLikelihood, seen, call, lastMiss,
              pc, h, f, xmax, ymax, fr, fits, result>>

NoDn == [made |-> FALSE, E |-> F0, Q |-> F0, Z |-> F0, forb |-> "None",
         run |-> [ret |-> F0, sqrts |-> <<>>]]
NoCall == [made |-> FALSE, x |-> F0, p |-> <<>>, ret |-> F0, hit |-> FALSE]
NoHistogram == [nbins |-> 0, xlow |-> 0, width |-> 0, content |-> <<>>, entries |-> 0]

\* the module just imported: empty caches, nothing called
Init ==
    /\ dnCall = NoDn
    /\ CACHE = <<>>
    /\ P_E_MEMO = {}
    /\ nLikelihood = 0
    /\ seen = {}
    /\ call = NoCall
    /\ lastMiss = NoCall
    /\ pc = "idle"
    /\ h = NoHistogram
    /\ f = TF1
    /\ xmax = None
    /\ ymax = F0
    /\ fr = "None"
    /\ fits = <<>>
    /\ result = [kind |-> "pending"]

(***************************************************************************)
(* Actions                                                                 *)
(***************************************************************************)
\* the effect of one call lyso_spectrum(x, p) on the module's state
Record(x0, p, r) ==
    /\ CACHE' = r.CACHE
    /\ P_E_MEMO' = r.memo
    /\ nLikelihood' = nLikelihood + r.nlik
    /\ seen' = seen \cup {p}
    /\ call' = [made |-> TRUE, x |-> x0, p |-> p, ret |-> r.ret, hit |-> r.hit]
    /\ lastMiss' = IF r.hit THEN lastMiss ELSE call'

Evaluate(x0, p) == Record(x0, p, lyso_spectrum_run(x0, p, CACHE, P_E_MEMO))

LysoSpectrumCall(x0, p) ==
    /\ Evaluate(x0, p)
    /\ UNCHANGED <<dnVars, fitVars>>

\* the arguments dn is called with, nan among them
DnE == {FI(-700), FI(-2), FI(-1), F0, FD(5, -1), FI(1), FI(2), FI(3), FI(593),
        FI(594), FI(700), FI(1001), NaN}
DnQ == {FI(-1), F0, FI(2), FI(593), FI(1000), NaN}
DnZ == {FI(1), FI(72)}

\* dn_run on these arguments, evaluated once each
DnRuns ==
    [E \in DnE, Q \in DnQ, Z \in DnZ, forb \in Forbs |-> dn_run(E, Q, Z, FI(176), forb)]

DnCall(E, Q, Z, forb) ==
    /\ dnCall' = [made |-> TRUE, E |-> E, Q |-> Q, Z |-> Z, forb |-> forb,
                  run |-> DnRuns[E, Q, Z, forb]]
    /\ UNCHANGED <<specVars, fitVars>>

\* fit_lyso(h) up to its first h.Fit: the seed scan, the early return, the
\* initial values, limits and fixes
FitLysoSeeded(hh, s) ==
    /\ xmax' = s.xmax
    /\ ymax' = s.ymax
    /\ IF IsNone(s.xmax)
       THEN /\ f' = TF1
            /\ result' = [kind |-> "None"]
            /\ pc' = "done"
       ELSE /\ f' = stage_a_setup(hh, ValueOf(s.xmax))
            /\ result' = result
            /\ pc' = "fitA"

FitLysoBegin(hh) ==
    /\ pc = "idle"
    /\ h' = hh
    /\ FitLysoSeeded(hh, seed(hh))
    /\ UNCHANGED <<fr, fits, dnVars, specVars>>

\* one h.Fit(f,"S+","",xmax-100,xmax+100): the solver runs on the TF1 as it
\* stands, evaluates lyso_spectrum at the parameters it ends on, and fr is
\* what it reports
SolverRan(outcome, w, t) ==
    /\ f' = t
    /\ fits' = Append(fits, [before |-> f, after |-> t, opt |-> w.opt,
                             xlo |-> w.xlo, xhi |-> w.xhi])
    /\ IF outcome = "null"
       THEN UNCHANGED specVars
       ELSE Evaluate(ValueOf(xmax), ParTuple(t))

SolverFit(here, next, outcome, move) ==
    /\ pc = here
    /\ SolverRan(outcome, fit_window(ValueOf(xmax)), Fitted(f, outcome, move))
    /\ fr' = outcome
    /\ pc' = next
    /\ UNCHANGED <<h, xmax, ymax, result, dnVars>>

SolverFitA(outcome, move) == SolverFit("fitA", "release", outcome, move)

\* between the fits: all the parameters float
FitLysoRelease ==
    /\ pc = "release"
    /\ f' = fit_lyso_release(f)
    /\ pc' = "fitB"
    /\ UNCHANGED <<h, xmax, ymax, fr, fits, result, dnVars, specVars>>

SolverFitB(outcome, move) == SolverFit("fitB", "check", outcome, move)

\* `if not fr.Get().IsValid(): return None`, else the parameters and errors;
\* fr.Get() of a TFitResultPtr holding no result is a null pointer, and
\* calling IsValid on it raises
fit_lyso_return(t, r) ==
    IF r = "null" THEN [kind |-> "raise", what |-> "ReferenceError"]
    ELSE IF r # "valid" THEN [kind |-> "None"]
    ELSE [kind |-> "ok", par |-> ParTuple(t), err |-> ErrTuple(t)]

FitLysoReturn ==
    /\ pc = "check"
    /\ result' = fit_lyso_return(f, fr)
    /\ pc' = "done"
    /\ UNCHANGED <<h, f, xmax, ymax, fr, fits, dnVars, specVars>>

(***************************************************************************)
(* Specifications                                                          *)
(***************************************************************************)
\* dn called with any arguments
NextDn == \E E \in DnE, Q \in DnQ, Z \in DnZ, forb \in Forbs : DnCall(E, Q, Z, forb)
SpecDn == Init /\ [][NextDn]_vars

\* any sequence of lyso_spectrum calls
NextSpectrum == \E x0 \in QueryPoints, p \in SpectrumParams : LysoSpectrumCall(x0, p)
SpecSpectrum == Init /\ [][NextSpectrum]_vars

\* one call of fit_lyso, the solver calling lyso_spectrum
NextFit ==
    \/ \E hh \in Histograms : FitLysoBegin(hh)
    \/ \E o \in SolverOutcomes, m \in SolverMoves : SolverFitA(o, m)
    \/ FitLysoRelease
    \/ \E o \in SolverOutcomes, m \in SolverMoves : SolverFitB(o, m)
    \/ FitLysoReturn
SpecFit == Init /\ [][NextFit]_vars

(***************************************************************************)
(* Properties                                                              *)
(***************************************************************************)
\* the bins of a histogram whose centre is above 100 keV, and those of them
\* that hold counts
Above100(hh) == {i \in 1..GetNbinsX(hh) : FGt(GetBinCenter(hh, i), FI(100))}
Live(hh) == {i \in Above100(hh) : FGt(GetBinContent(hh, i), F0)}

\* fit_lyso found a seed peak and went on to the fits
Seeded == pc # "idle" /\ ~IsNone(xmax)

\* C1: a call of lyso_spectrum whose parameter tuple an earlier call already
\* had makes no likelihood evaluation, whatever its query point; the count of
\* likelihood evaluations grows only on the first call for a tuple, by one
\* evaluation per point of the charge grid.
C1_RepeatedTupleEvaluatesNothing ==
    [][IF call'.p \in seen
       THEN nLikelihood' = nLikelihood
       ELSE nLikelihood' = nLikelihood + NQ]_vars

\* a tuple called a second time at another query point, found in CACHE
C1_Witness ==
    /\ call.made /\ call.hit
    /\ lastMiss.p = call.p /\ lastMiss.x # call.x
    /\ seen = {call.p} /\ nLikelihood = NQ

\* C2: for a histogram in which every bin centred above 100 keV is empty (or
\* that has no such bin), fit_lyso returns None and h.Fit is never called.
C2_NoPeakNoFit ==
    (pc # "idle" /\ Live(h) = {}) =>
        (pc = "done" /\ result.kind = "None" /\ fits = <<>> /\ fr = "None")

\* a histogram with counts below 100 keV and only empty bins above it
C2_Witness ==
    /\ pc = "done" /\ Live(h) = {} /\ Above100(h) # {}
    /\ \E i \in 1..GetNbinsX(h) : h.content[i] > 0
    /\ result.kind = "None"

\* C3 as stated: once a seed peak is found fit_lyso never raises; it returns
\* None when the second fit's result is not valid (invalid, or no result
\* object) and six parameters with six errors otherwise.
C3_NeverRaises ==
    (pc = "done" /\ Seeded) =>
        /\ result.kind # "raise"
        /\ (fr # "valid" => result.kind = "None")
        /\ (fr = "valid" =>
              result.kind = "ok" /\ Len(result.par) = 6 /\ Len(result.err) = 6)

\* C4: for E <= 0 or E > Q, whatever Z and the forbiddenness, dn returns
\* exactly 0 and has taken no square root: the guard returns first.
C4_GuardReturnsZeroFirst ==
    (dnCall.made /\ (FLe(dnCall.E, F0) \/ FGt(dnCall.E, dnCall.Q))) =>
        (dnCall.run.ret = F0 /\ dnCall.run.sqrts = <<>>)

\* dn called at E = 0 with the end point above it
C4_Witness ==
    /\ dnCall.made /\ dnCall.E = F0 /\ FGt(dnCall.Q, F0)
    /\ dnCall.run.ret = F0 /\ dnCall.run.sqrts = <<>>

\* C5 as stated: for a query point outside [88, 500] lyso_spectrum returns the
\* value of the straight line through the two grid points nearest that end.
C5_OutsideGridExtends ==
    (call.made /\ (FLt(call.x, FI(88)) \/ FGt(call.x, FI(500)))) =>
        call.ret = interp_extend(call.x, qs_grid, Tabulated[call.p])

\* C5, amended: for a query point below 88 lyso_spectrum returns the first
\* tabulated value, for one above 500 the last one.
C5_OutsideGridClamps ==
    call.made =>
        /\ FLt(call.x, FI(88)) => call.ret = Tabulated[call.p][1]
        /\ FGt(call.x, FI(500)) => call.ret = Tabulated[call.p][NQ]

\* a query below the grid, of a table whose first two values differ
C5_Witness ==
    /\ call.made /\ FLt(call.x, FI(88))
    /\ Tabulated[call.p][1] # Tabulated[call.p][2]
    /\ call.ret = Tabulated[call.p][1]

\* C6 as stated: when some bin centred above 100 keV holds counts, the last
\* bin included, a seed is found, and xmax is the centre of a bin whose
\* content is the largest among all bins 1..GetNbinsX centred above 100 keV.
C6_SeedOverAllBins ==
    (pc # "idle" /\ Live(h) # {}) =>
        /\ ~IsNone(xmax)
        /\ \E i \in Live(h) :
              /\ GetBinCenter(h, i) = ValueOf(xmax)
              /\ \A j \in Above100(h) : h.content[j] <= h.content[i]

\* C7: parameters 4 and 5 are fixed with value 0 at each h.Fit call, after
\* it, between the fits and at the return, and a successful fit_lyso returns
\* p[4] = p[5] = 0.
C7_HighAmplitudesFixedAtZero ==
    /\ \A k \in 1..Len(fits) : \A i \in {4, 5} :
          /\ IsFixed(fits[k].before, i) /\ fits[k].before.par[i] = F0
          /\ IsFixed(fits[k].after, i) /\ fits[k].after.par[i] = F0
    /\ Seeded => \A i \in {4, 5} : IsFixed(f, i) /\ f.par[i] = F0
    /\ result.kind = "ok" => (result.par[5] = F0 /\ result.par[6] = F0)

\* a successful fit_lyso whose second fit moved a floating parameter
C7_Witness ==
    /\ result.kind = "ok" /\ Len(fits) = 2
    /\ fits[2].after.par[2] # fits[2].before.par[2]
    /\ result.par[5] = F0 /\ result.par[6] = F0

\* C8: at the first h.Fit, parameter 0 is fixed at xmax/300 and parameter 1
\* at 0.1, the floating parameters are exactly 2 and 3, each starting at the
\* histogram's entry count, and the window is [xmax-100, xmax+100].
C8_StageA ==
    Len(fits) >= 1 =>
        LET b == fits[1].before
        IN  /\ IsFixed(b, 0) /\ b.par[0] = FDiv(ValueOf(xmax), FI(300))
            /\ IsFixed(b, 1) /\ b.par[1] = FD(1, -1)
            /\ {i \in Pars : ~IsFixed(b, i)} = {2, 3}
            /\ b.par[2] = GetEntries(h) /\ b.par[3] = GetEntries(h)
            /\ fits[1].xlo = FSub(ValueOf(xmax), FI(100))
            /\ fits[1].xhi = FAdd(ValueOf(xmax), FI(100))

\* the first fit made, on a histogram with entries
C8_Witness ==
    /\ Len(fits) = 1 /\ pc = "release"
    /\ fits[1].before.par[2] # F0
    /\ fits[1].after.par[2] # fits[1].before.par[2]

\* C9: the second h.Fit comes after the first; at it parameter 0 floats in
\* [0.1, 10], parameter 1 in [0.01, 0.2], parameters 2 and 3 in [0, 1e9], the
\* window is the first fit's, and the parameters start where the first fit
\* left them.
C9_StageB ==
    /\ pc = "fitB" => Len(fits) = 1
    /\ Len(fits) >= 2 =>
          LET b == fits[2].before
          IN  /\ HasLimits(b, 0) /\ b.parmin[0] = FD(1, -1) /\ b.parmax[0] = FI(10)
              /\ HasLimits(b, 1) /\ b.parmin[1] = FD(1, -2) /\ b.parmax[1] = FD(2, -1)
              /\ \A i \in {2, 3} :
                    HasLimits(b, i) /\ b.parmin[i] = F0 /\ b.parmax[i] = AmpMax
              /\ fits[2].xlo = fits[1].xlo /\ fits[2].xhi = fits[1].xhi
              /\ fits[2].xlo = FSub(ValueOf(xmax), FI(100))
              /\ fits[2].xhi = FAdd(ValueOf(xmax), FI(100))
              /\ b.par = fits[1].after.par

\* the second fit made after a first fit that moved the amplitudes
C9_Witness ==
    /\ Len(fits) = 2
    /\ fits[1].after.par # fits[1].before.par
    /\ fits[2].before.par = fits[1].after.par

\* C10: a call of lyso_spectrum leaves every key of CACHE in it, with the
\* table it had; what a call returns is the interpolation of the table a miss
\* computes for its tuple, so a hit returns what the miss for the same query
\* point and tuple returned.
C10_CacheOnlyGrows ==
    [][/\ \A k \in DOMAIN CACHE : k \in DOMAIN CACHE' /\ CACHE'[k] = CACHE[k]
       /\ call'.ret = interp(call'.x, qs_grid, Tabulated[call'.p])
       /\ (call'.hit /\ lastMiss.x = call'.x /\ lastMiss.p = call'.p) =>
             call'.ret = lastMiss.ret]_vars

\* a hit on a key stored before the latest miss stored another one
C10_Witness ==
    /\ call.made /\ call.hit /\ lastMiss.made
    /\ lastMiss.p # call.p
    /\ Cardinality(DOMAIN CACHE) >= 2

====
